---- MODULE Spec2Model ----
(***************************************************************************)
(* Model of the custom-message handler of the Cast Web Receiver            *)
(* (src/cast/js/receiver.js, onMessageReceived) and of the module-level    *)
(* state it reads and writes, and of the tutorial shell                    *)
(* (src/cyber/scripts.js, handleCommand and its timer callbacks).  The two *)
(* programs run in different pages and share no state; each has its own    *)
(* specification.  JavaScript strings are TLA+ strings; a message field    *)
(* that may be absent is a tagged value.                                   *)
(***************************************************************************)
EXTENDS Integers, Sequences, FiniteSets, TLC

(***************************************************************************)
(* Bounds and program constants                                            *)
(***************************************************************************)
\* Number of messages delivered to the listener in one behaviour.
MaxMsgs == 3

\* Number of commands entered in the shell in one behaviour.
MaxCmds == 2

\* receiver.js:429 / 484  (length < 1000)
TauSmall == 1000
\* receiver.js:449 / 502  (length > 5000)
TauFlush == 5000

(***************************************************************************)
(* JavaScript values                                                       *)
(***************************************************************************)
Undefined == [tag |-> "undefined", val |-> ""]
Str(s) == [tag |-> "string", val |-> s]

\* String conversion applied by `+=` on a string and by a template literal.
ToJSString(m) == IF m.tag = "undefined" THEN "undefined" ELSE m.val

RECURSIVE Repeat(_, _)
Repeat(s, n) ==
  IF n = 0 THEN ""
  ELSE LET h == Repeat(s, n \div 2)
       IN  IF n % 2 = 0 THEN h \o h ELSE h \o h \o s

\* The 6000-character fragment of the audio scenario.
D6000 == Repeat("d", 6000)

JsonTwoTasks == "{\"tasks\":[\"a\",\"b\"]}"
JsonOneTask == "{\"tasks\":[\"c\"]}"
JsonNoTasks == "{}"

\* JSON.parse on the texts the model delivers: either a SyntaxError, or an
\* object whose `tasks` property is an array or is absent.
JSONParse(text) ==
  IF text = JsonTwoTasks
    THEN [ok |-> TRUE, hasTasks |-> TRUE, tasks |-> <<"a", "b">>]
  ELSE IF text = JsonOneTask
    THEN [ok |-> TRUE, hasTasks |-> TRUE, tasks |-> <<"c">>]
  ELSE IF text = JsonNoTasks
    THEN [ok |-> TRUE, hasTasks |-> FALSE, tasks |-> <<>>]
  ELSE [ok |-> FALSE, hasTasks |-> FALSE, tasks |-> <<>>]

(***************************************************************************)
(* Messages delivered on the custom channel                                *)
(***************************************************************************)
Fragments == {Undefined, Str(""), Str("abc"), Str(D6000)}
TaskTexts == {Undefined, Str("abc"), Str(JsonNoTasks), Str(JsonOneTask), Str(JsonTwoTasks)}

\* Chunks of the two payload streams, and chunks whose description names no
\* stream of the receiver.
ChunkData == [description : {"audio", "image"},
              num : {-1, 0, 1},
              message : Fragments]
       \cup [description : {"video"},
              num : {-1, 0, 1},
              message : {Str("abc")}]
TaskData == [description : {"tasks"}, num : {0}, message : TaskTexts]
EventData == ChunkData \cup TaskData

NoData == [description |-> "", num |-> 0, message |-> Undefined]

(***************************************************************************)
(* The shell's values, scripts.js:1-25                                     *)
(***************************************************************************)
\* JavaScript values met by the shell: objects with their keys in insertion
\* order, strings, numbers, undefined and null.
EmptyVals == [n \in {} |-> 0]
JSObject(keys, vals) ==
  [type |-> "object", keys |-> keys, vals |-> vals, text |-> "", num |-> 0]
JSString(text) ==
  [type |-> "string", keys |-> << >>, vals |-> EmptyVals, text |-> text, num |-> 0]
JSNumber(n) ==
  [type |-> "number", keys |-> << >>, vals |-> EmptyVals, text |-> "", num |-> n]
JSUndefined ==
  [type |-> "undefined", keys |-> << >>, vals |-> EmptyVals, text |-> "", num |-> 0]
JSNull ==
  [type |-> "null", keys |-> << >>, vals |-> EmptyVals, text |-> "", num |-> 0]

EmptyObject == JSObject(<< >>, EmptyVals)

\* fileSystem, scripts.js:1-16: three objects under the keys '/', '/home'
\* and '/home/user'.  The directories inside '/' are empty objects of
\* their own, not the objects under the other keys.
RootObject ==
  JSObject(<< "home", "etc", "var", "usr", "file.txt", "file1.txt" >>,
           [n \in {"home", "etc", "var", "usr", "file.txt", "file1.txt"} |->
              IF n = "file.txt" THEN JSString("This is a file.")
              ELSE IF n = "file1.txt"
                THEN JSString("This is the content of file1.txt.")
              ELSE EmptyObject])
HomeObject == JSObject(<< "user" >>, [n \in {"user"} |-> EmptyObject])
UserObject ==
  JSObject(<< "document.txt" >>,
           [n \in {"document.txt"} |->
              JSString("This is a document in the user home directory.")])
InitialFileSystem ==
  [k \in {"/", "/home", "/home/user"} |->
     IF k = "/" THEN RootObject
     ELSE IF k = "/home" THEN HomeObject
     ELSE UserObject]

\* tarballContent, scripts.js:18-25.
tarballContent ==
  << "image1.png", "image2.png", "image3.png", "document1.txt",
     "document2.txt", "document3.txt", "image4.png", "document4.txt",
     "image5.png", "document5.txt", "image6.png", "document6.txt",
     "image7.png", "document7.txt", "image8.png", "document8.txt",
     "image9.png", "document9.txt", "image10.png", "document10.txt",
     "image11.png", "document11.txt", "image12.png", "document12.txt",
     "image13.png", "document13.txt", "image14.png", "document14.txt",
     "image15.png", "document15.txt" >>

(***************************************************************************)
(* State                                                                   *)
(***************************************************************************)
VARIABLES
  CopiedImageString,  \* receiver.js:245
  CopiedSoundString,  \* receiver.js:246
  lastEventData,      \* receiver.js:247
  totalAudio,         \* receiver.js:249
  messageHTML,        \* innerHTML of the 'message' element, receiver.js:242
  dataContent,        \* data-content attribute of 'cast-media-player'
  taskStarted,        \* global of the host page, assigned at receiver.js:264
  tasks,              \* global of the host page, assigned at receiver.js:268
  hostGlobals,        \* does the host page define taskStarted, tasks, game
  sinkCalls,          \* calls of unityGame.SendMessage, in call order
  outcome,            \* how the last call of onMessageReceived ended
  ingested            \* the data of the messages delivered so far, in order

VARIABLES
  fileSystem,         \* scripts.js:1
  currentDir,         \* scripts.js:27
  executedLs,         \* scripts.js:28
  executedCat,        \* scripts.js:29
  completionShown,    \* 'completionMessage' no longer has the class 'hidden'
  printed,            \* the lines the last step appended to 'output'
  inputValue,         \* value of the 'input' element after the last command
  timers,             \* pending setTimeout callbacks, oldest first: the index
                      \* each closes over, and (history) the directory in which
                      \* its tar command was entered
  shellOutcome,       \* how the last handler or callback ended
  cmdCount            \* number of commands entered so far

receiverVars == <<CopiedImageString, CopiedSoundString, lastEventData,
                  totalAudio, messageHTML, dataContent, taskStarted, tasks,
                  hostGlobals, sinkCalls, outcome, ingested>>

shellVars == <<fileSystem, currentDir, executedLs, executedCat,
               completionShown, printed, inputValue, timers, shellOutcome,
               cmdCount>>

vars == <<receiverVars, shellVars>>

Init ==
  /\ CopiedImageString = ""
  /\ CopiedSoundString = ""
  /\ lastEventData = NoData
  /\ totalAudio = 0
  /\ messageHTML = "testing"
  /\ dataContent = ""
  /\ taskStarted = FALSE
  /\ tasks = <<>>
  /\ hostGlobals \in BOOLEAN
  /\ sinkCalls = <<>>
  /\ outcome = "none"
  /\ ingested = <<>>
  /\ fileSystem = InitialFileSystem
  /\ currentDir = "/"
  /\ executedLs = FALSE
  /\ executedCat = FALSE
  /\ completionShown = FALSE
  /\ printed = << >>
  /\ inputValue = ""
  /\ timers = << >>
  /\ shellOutcome = "none"
  /\ cmdCount = 0

(***************************************************************************)
(* onMessageReceived, receiver.js:258-322.  Every path of the num dispatch *)
(* returns, and an unconditional return follows it, so the statements      *)
(* after line 322 are never executed.                                      *)
(***************************************************************************)

\* num == 0: the buffer is reset, then the message is appended.
StartChunk_NoReset(buf, message) == buf \o ToJSString(message)
StartChunk(buf, message) == "" \o ToJSString(message)

\* num == -1 and every other num: the message is appended.
AppendChunk(buf, message) == buf \o ToJSString(message)

\* The num dispatch with an END that clears the buffer instead of appending.
NumDispatch_EndClears(buf, data) ==
  IF data.num = -1 THEN ""
  ELSE IF data.num = 0 THEN StartChunk(buf, data.message)
  ELSE AppendChunk(buf, data.message)

\* CopiedImageString after the num dispatch of lines 273-321.
NumDispatch(buf, data) ==
  IF data.num = -1 THEN AppendChunk(buf, data.message)
  ELSE IF data.num = 0 THEN StartChunk(buf, data.message)
  ELSE AppendChunk(buf, data.message)

\* CopiedImageString after one call of the handler.
ImageStringAfter(buf, data) ==
  IF data.description = "tasks" THEN buf ELSE NumDispatch(buf, data)

\* tasks[i] = taskObject.tasks[i] for every index of the parsed array.
CopyTasks(old, new) ==
  [i \in 1..(IF Len(old) > Len(new) THEN Len(old) ELSE Len(new)) |->
     IF i <= Len(new) THEN new[i] ELSE old[i]]

\* The "tasks" branch, lines 262-272.
TasksBranch(data) ==
  LET parsed == JSONParse(ToJSString(data.message)) IN
  /\ UNCHANGED <<CopiedImageString>>
  /\ IF ~hostGlobals
       THEN /\ outcome' = "ReferenceError"
            /\ UNCHANGED <<taskStarted, tasks>>
     ELSE IF ~parsed.ok
       THEN /\ outcome' = "SyntaxError"
            /\ taskStarted' = TRUE
            /\ UNCHANGED tasks
     ELSE IF ~parsed.hasTasks
       THEN /\ outcome' = "TypeError"
            /\ taskStarted' = TRUE
            /\ UNCHANGED tasks
     ELSE /\ outcome' = "return"
          /\ taskStarted' = TRUE
          /\ tasks' = CopyTasks(tasks, parsed.tasks)

\* The num dispatch, lines 273-322.  The num == -1 path goes on to use the
\* host page's `game` after the append (lines 289-303): a ReferenceError
\* when the page defines none, listeners on the page's texture manager
\* otherwise.
ChunkBranch(data) ==
  /\ CopiedImageString' = NumDispatch(CopiedImageString, data)
  /\ outcome' = IF data.num = -1 /\ ~hostGlobals THEN "ReferenceError"
                ELSE "return"
  /\ UNCHANGED <<taskStarted, tasks>>

\* The calls of unityGame.SendMessage after one call of the handler: lines
\* 258-322 contain none, and every path through them returns or throws.
SendMessageCalls_UncountedPart(calls, data) ==
  IF data.description = "audio" /\ data.num = 0
    THEN Append(calls, [target |-> "ImageHandler",
                        method |-> "HandleSoundDataPart",
                        content |-> ToJSString(data.message)])
    ELSE calls
SendMessageCalls_FallThrough(calls, data) ==
  IF data.description # "tasks" /\ data.num = -1
    THEN Append(calls, [target |-> "ImageHandler",
                        method |-> "HandleImageData", content |-> ""])
    ELSE calls
SendMessageCalls(calls, data) == calls

onMessageReceived(customEvent) ==
  /\ Len(ingested) < MaxMsgs
  /\ ingested' = Append(ingested, customEvent.data)
  /\ dataContent' = ToJSString(customEvent.data.message)
  /\ lastEventData' = customEvent.data
  /\ IF customEvent.data.description = "tasks"
       THEN TasksBranch(customEvent.data)
       ELSE ChunkBranch(customEvent.data)
  /\ sinkCalls' = SendMessageCalls(sinkCalls, customEvent.data)
  /\ UNCHANGED <<CopiedSoundString, totalAudio, messageHTML, hostGlobals>>
  /\ UNCHANGED shellVars

Next == \E data \in EventData : onMessageReceived([data |-> data])

Spec == Init /\ [][Next]_vars

(***************************************************************************)
(* Vocabulary of the reassembly contract                                   *)
(***************************************************************************)
Channels == {"audio", "image"}

\* The buffer of a channel: CopiedSoundString for "audio" (lines 405-463),
\* CopiedImageString for the image stream (lines 464-511).
BufferOf(c, img, snd) == IF c = "audio" THEN snd ELSE img

PartialMethod(c) ==
  IF c = "audio" THEN "HandleSoundDataPart" ELSE "HandleImageDataPart"
FinalMethod(c) ==
  IF c = "audio" THEN "HandleSoundData" ELSE "HandleImageData"

SinkCall(method, content) ==
  [target |-> "ImageHandler", method |-> method, content |-> content]

Last(s) == s[Len(s)]

\* This step is one call of the handler; Delivered is the data it was given.
Ingests == ingested' # ingested
Delivered == Last(ingested')

IsStart(d) == d.num = 0
IsEnd(d) == d.num = -1
IsMiddle(d) == d.num # 0 /\ d.num # -1
HasFragment(d) == d.message.tag = "string"

\* Contents of the calls of one sink method, in call order, concatenated.
RECURSIVE ContentOf(_, _)
ContentOf(calls, methods) ==
  IF calls = <<>> THEN ""
  ELSE (IF Head(calls).method \in methods THEN Head(calls).content ELSE "")
       \o ContentOf(Tail(calls), methods)

CallsOf(calls, method) == SelectSeq(calls, LAMBDA k : k.method = method)

\* h is START, zero or more MIDDLE, END, all on channel c, all with fragments.
WellFormed(h, c) ==
  /\ Len(h) >= 2
  /\ \A i \in 1..Len(h) : h[i].description = c /\ HasFragment(h[i])
  /\ IsStart(h[1])
  /\ IsEnd(h[Len(h)])
  /\ \A i \in 2..(Len(h) - 1) : IsMiddle(h[i])

\* f_start + f1 + f2 + ... of a well-formed sequence (the END chunk excluded).
RECURSIVE Payload(_, _)
Payload(h, n) ==
  IF n = 0 THEN "" ELSE Payload(h, n - 1) \o h[n].message.val

\* CopiedImageString after the first n messages of h.
RECURSIVE ImageStringAt(_, _)
ImageStringAt(h, n) ==
  IF n = 0 THEN "" ELSE ImageStringAfter(ImageStringAt(h, n - 1), h[n])

(***************************************************************************)
(* C1..C10                                                                 *)
(***************************************************************************)

\* C1: after a well-formed chunk sequence on one channel, the contents given
\* to the channel's partial sink followed by the content of the final sink
\* call, concatenated in call order, equal the START fragment followed by
\* the MIDDLE fragments.
C1_DeliveredEqualsPayload ==
  \A c \in Channels :
    WellFormed(ingested, c) =>
      ContentOf(sinkCalls, {PartialMethod(c)})
        \o ContentOf(sinkCalls, {FinalMethod(c)})
      = Payload(ingested, Len(ingested) - 1)

\* C2: after a well-formed chunk sequence on a channel exactly one final sink
\* call was made for it; its content is empty, or the full content when the
\* START fragment is shorter than 1000.
C2_ExactlyOneFinal ==
  \A c \in Channels :
    WellFormed(ingested, c) =>
      LET finals == CallsOf(sinkCalls, FinalMethod(c)) IN
      /\ Len(finals) = 1
      /\ finals[1].content =
           IF Len(ingested[1].message.val) < TauSmall
             THEN Payload(ingested, Len(ingested) - 1)
             ELSE ""

\* C3: a chunk with description "audio" never changes CopiedImageString and
\* a chunk on the image channel never changes CopiedSoundString.
C3_ChannelsIndependent ==
  [][Ingests =>
       /\ Delivered.description = "audio"
            => CopiedImageString' = CopiedImageString
       /\ Delivered.description = "image"
            => CopiedSoundString' = CopiedSoundString]_vars

\* C4: a START chunk whose fragment is shorter than 1000 makes, within that
\* ingest, the partial call and then the final call of its channel, both
\* with the START fragment, and leaves the channel's buffer empty.
C4_SmallStartFlushes ==
  [][\A c \in Channels :
       (/\ Ingests
        /\ Delivered.description = c
        /\ IsStart(Delivered)
        /\ HasFragment(Delivered)
        /\ Len(Delivered.message.val) < TauSmall)
       => /\ sinkCalls' = sinkCalls \o
               << SinkCall(PartialMethod(c), Delivered.message.val),
                  SinkCall(FinalMethod(c), Delivered.message.val) >>
          /\ BufferOf(c, CopiedImageString', CopiedSoundString') = ""]_vars

\* C5: when the ingest of a MIDDLE chunk returns, the channel's buffer is
\* not longer than 5000.
C5_MiddleKeepsBufferBounded ==
  [][\A c \in Channels :
       (Ingests /\ Delivered.description = c /\ IsMiddle(Delivered))
       => Len(BufferOf(c, CopiedImageString', CopiedSoundString'))
            <= TauFlush]_vars

\* One step of C6: the START replaces the pending content by its fragment,
\* returns normally and makes no sink call.
C6_StartStep ==
  \A c \in Channels :
    (/\ Ingests
     /\ Delivered.description = c
     /\ IsStart(Delivered)
     /\ HasFragment(Delivered)
     /\ BufferOf(c, CopiedImageString, CopiedSoundString) # "")
    => /\ BufferOf(c, CopiedImageString', CopiedSoundString')
            = Delivered.message.val
       /\ outcome' = "return"
       /\ sinkCalls' = sinkCalls

\* The content a START discarded from the image buffer is the content of no
\* sink call.
C6_DiscardedNeverDelivered ==
  \A i \in 1..Len(ingested) :
    (/\ ingested[i].description = "image"
     /\ IsStart(ingested[i])
     /\ ImageStringAt(ingested, i - 1) # "")
    => \A k \in 1..Len(sinkCalls) :
         sinkCalls[k].content # ImageStringAt(ingested, i - 1)

\* C6: a START chunk on a channel whose buffer holds pending content makes
\* the buffer exactly the new START fragment, raises no error, and the
\* discarded content is given to no sink call by this or any later ingest.
C6_StartDiscardsPending ==
  [][C6_StartStep]_vars /\ []C6_DiscardedNeverDelivered

\* A START with a fragment has just replaced pending content of the image
\* buffer.
C6_Witness ==
  /\ Len(ingested) >= 2
  /\ Last(ingested).description = "image"
  /\ IsStart(Last(ingested))
  /\ HasFragment(Last(ingested))
  /\ ImageStringAt(ingested, Len(ingested) - 1) # ""
  /\ ImageStringAt(ingested, Len(ingested) - 1) # Last(ingested).message.val
  /\ CopiedImageString = Last(ingested).message.val
  /\ outcome = "return"

\* C7: a chunk whose description is "video" produces no sink call, raises no
\* exception and leaves every buffer unchanged, whatever its num.
C7_UnknownChannelDropped ==
  [][(Ingests /\ Delivered.description = "video")
       => /\ sinkCalls' = sinkCalls
          /\ outcome' = "return"
          /\ CopiedImageString' = CopiedImageString
          /\ CopiedSoundString' = CopiedSoundString]_vars

\* C8: START("abc"), MIDDLE("d"*6000), END("") on "audio" produce the partial
\* call with "abc" followed by the d's, the partial call with the remainder,
\* and the final call with "", in this order and nothing else.
C8_AudioScenario ==
  ingested = << [description |-> "audio", num |-> 0, message |-> Str("abc")],
                [description |-> "audio", num |-> 1, message |-> Str(D6000)],
                [description |-> "audio", num |-> -1, message |-> Str("")] >>
  => sinkCalls = << SinkCall("HandleSoundDataPart", "abc" \o D6000),
                    SinkCall("HandleSoundDataPart", ""),
                    SinkCall("HandleSoundData", "") >>

\* C9: a START or MIDDLE chunk without a message leaves the buffers and the
\* sink calls as the same chunk with the empty string as message does.
C9_MissingFragmentIsEmpty ==
  [][(/\ Ingests
      /\ Delivered.description \in Channels
      /\ ~IsEnd(Delivered)
      /\ ~HasFragment(Delivered))
       => /\ CopiedImageString' =
               ImageStringAfter(CopiedImageString,
                                [Delivered EXCEPT !.message = Str("")])
          /\ CopiedSoundString' = CopiedSoundString
          /\ sinkCalls' = sinkCalls]_vars

\* C10: every call of onMessageReceived returns normally, whatever the
\* description, num and message.
C10_NeverThrows == outcome \in {"none", "return"}

(***************************************************************************)
(* C11..C17                                                                *)
(***************************************************************************)

\* a is an initial part of b.
IsPrefix(a, b) == Len(a) <= Len(b) /\ SubSeq(b, 1, Len(a)) = a

\* C11: an END chunk on channel c gives the buffer to the partial sink when
\* it is not empty and makes no partial call when it is empty, then makes
\* exactly one final call with empty content; the END fragment is not
\* appended and c's buffer is empty when the ingest returns.
C11_EndFlushesAndCompletes ==
  [][\A c \in Channels :
       (Ingests /\ Delivered.description = c /\ IsEnd(Delivered))
       => LET b == BufferOf(c, CopiedImageString, CopiedSoundString) IN
          /\ sinkCalls' = sinkCalls
               \o (IF b # "" THEN << SinkCall(PartialMethod(c), b) >>
                             ELSE << >>)
               \o << SinkCall(FinalMethod(c), "") >>
          /\ BufferOf(c, CopiedImageString', CopiedSoundString') = ""]_vars

\* C12: a START chunk whose fragment has length >= 1000 makes no sink call
\* and leaves c's buffer equal to exactly that fragment.
C12_LargeStartRetained ==
  [][\A c \in Channels :
       (/\ Ingests
        /\ Delivered.description = c
        /\ IsStart(Delivered)
        /\ HasFragment(Delivered)
        /\ Len(Delivered.message.val) >= TauSmall)
       => /\ sinkCalls' = sinkCalls
          /\ BufferOf(c, CopiedImageString', CopiedSoundString')
               = Delivered.message.val]_vars

\* C13: a MIDDLE chunk with fragment f on a buffer b makes one partial call
\* with b+f and empties the buffer when length(b+f) > 5000, and otherwise
\* makes no sink call and leaves the buffer equal to b+f.
C13_MiddleAppendsOrFlushes ==
  [][\A c \in Channels :
       (/\ Ingests
        /\ Delivered.description = c
        /\ IsMiddle(Delivered)
        /\ HasFragment(Delivered))
       => LET bf == BufferOf(c, CopiedImageString, CopiedSoundString)
                      \o Delivered.message.val IN
          IF Len(bf) > TauFlush
            THEN /\ sinkCalls' = sinkCalls \o << SinkCall(PartialMethod(c), bf) >>
                 /\ BufferOf(c, CopiedImageString', CopiedSoundString') = ""
            ELSE /\ sinkCalls' = sinkCalls
                 /\ BufferOf(c, CopiedImageString', CopiedSoundString') = bf]_vars

\* C15: a message that is not a START on channel c removes nothing from c's
\* buffer unless the buffer's content is given to a sink call by that ingest.
C15_OnlyStartAbandons ==
  [][\A c \in Channels :
       (Ingests /\ ~(Delivered.description = c /\ IsStart(Delivered)))
       => LET b == BufferOf(c, CopiedImageString, CopiedSoundString) IN
          \/ IsPrefix(b, BufferOf(c, CopiedImageString', CopiedSoundString'))
          \/ \E k \in (Len(sinkCalls) + 1)..Len(sinkCalls') :
               sinkCalls'[k].content = b]_vars

\* C17: whatever messages were delivered, no call of unityGame.SendMessage
\* has been made and CopiedSoundString still has its initial value.
C17_NoSinkCallEver ==
  /\ sinkCalls = << >>
  /\ CopiedSoundString = ""

\* Audio and image chunks, an END among them, have been handled, and the
\* handler has returned from the last one.
C17_Witness ==
  /\ Len(ingested) = 3
  /\ \E i \in 1..3 : ingested[i].description = "audio" /\ IsStart(ingested[i])
  /\ \E i \in 1..3 : ingested[i].description = "image" /\ IsEnd(ingested[i])
  /\ CopiedImageString # ""
  /\ outcome = "return"
  /\ sinkCalls = << >>

(***************************************************************************)
(* The handler together with the host page, which writes the readiness     *)
(* text into the 'message' element between two messages.                   *)
(***************************************************************************)
Waiting == "waiting"

\* The texts of the 'message' element: "testing" is written when the
\* script loads, "waiting" is the text the readiness test compares with.
HostTexts == {Waiting, "testing"}

\* The host page writes the readiness text between two messages.
HostWritesMessage(text) ==
  /\ Len(ingested) < MaxMsgs
  /\ messageHTML # text
  /\ messageHTML' = text
  /\ UNCHANGED <<CopiedImageString, CopiedSoundString, lastEventData,
                 totalAudio, dataContent, taskStarted, tasks, hostGlobals,
                 sinkCalls, outcome, ingested>>
  /\ UNCHANGED shellVars

GateNext ==
  \/ \E data \in EventData : onMessageReceived([data |-> data])
  \/ \E text \in HostTexts : HostWritesMessage(text)

GateSpec == Init /\ [][GateNext]_vars

(***************************************************************************)
(* C14, C16, C18, C19                                                      *)
(***************************************************************************)

\* Every chunk of h carries a fragment.
AllFragments(h) == \A i \in 1..Len(h) : HasFragment(h[i])

\* The calls made by this step.
NewCalls == SubSeq(sinkCalls', Len(sinkCalls) + 1, Len(sinkCalls'))

\* C14: an ingest that makes a sink call for channel c leaves c's buffer
\* empty, and c's buffer is emptied only together with a sink call of c
\* that carries what it held (with or without the fragment), or by the
\* reset of a START chunk.
C14_FlushEmptiesAndOnlyFlushEmpties ==
  [][Ingests =>
       \A c \in Channels :
         LET before == BufferOf(c, CopiedImageString, CopiedSoundString)
             after == BufferOf(c, CopiedImageString', CopiedSoundString')
             calls == SelectSeq(NewCalls,
                        LAMBDA k : k.method \in {PartialMethod(c), FinalMethod(c)})
         IN  /\ calls # << >> => after = ""
             /\ (before # "" /\ after = "")
                  => \/ \E k \in 1..Len(calls) :
                          calls[k].content
                            \in {before, before \o ToJSString(Delivered.message)}
                     \/ IsStart(Delivered)]_vars

\* A buffer that held content through a MIDDLE and an END chunk has been
\* emptied by the reset of a START chunk.
C14_Witness ==
  /\ Len(ingested) = 3
  /\ ingested[1].description = "image" /\ IsMiddle(ingested[1])
  /\ ingested[1].message = Str("abc")
  /\ ingested[2].description = "image" /\ IsEnd(ingested[2])
  /\ ingested[3].description = "image" /\ IsStart(ingested[3])
  /\ CopiedImageString = ""
  /\ outcome = "return"

RECURSIVE LengthSum(_)
LengthSum(calls) ==
  IF calls = << >> THEN 0
  ELSE Len(Head(calls).content) + LengthSum(Tail(calls))

\* C16: totalAudio equals the sum of the lengths of the contents given to
\* the audio channel's partial sink so far (so every flush, of an END and of
\* a small START too, is counted), and it never decreases.
C16_TotalAudioIsFlushedTotal ==
  /\ [](totalAudio = LengthSum(CallsOf(sinkCalls, "HandleSoundDataPart")))
  /\ [][totalAudio' >= totalAudio]_vars

\* A small START, a MIDDLE longer than 5000 and an END of the audio channel
\* have been handled.
C16_Witness ==
  /\ Len(ingested) = 3
  /\ \A i \in 1..3 : ingested[i].description = "audio"
  /\ IsStart(ingested[1]) /\ ingested[1].message = Str("abc")
  /\ IsMiddle(ingested[2]) /\ ingested[2].message = Str(D6000)
  /\ IsEnd(ingested[3])
  /\ totalAudio = 0
  /\ outcome = "return"

\* C18: an audio or image chunk ingested while the 'message' element reads
\* "waiting" makes no sink call, whatever its num.
C18_WaitingSuppressesDelivery ==
  [][(Ingests /\ messageHTML = Waiting /\ Delivered.description \in Channels)
       => sinkCalls' = sinkCalls]_vars

\* START, MIDDLE and END chunks of both channels have been handled and the
\* element reads "waiting".
C18_Witness ==
  /\ messageHTML = Waiting
  /\ Len(ingested) = 3
  /\ IsStart(ingested[1]) /\ IsMiddle(ingested[2]) /\ IsEnd(ingested[3])
  /\ \E i \in 1..3 : ingested[i].description = "audio"
  /\ \E i \in 1..3 : ingested[i].description = "image"
  /\ \A i \in 1..3 : ingested[i].description \in Channels
  /\ sinkCalls = << >>

\* The chunks handled so far, had they been sent on the image channel.
AsImage(h) == [i \in 1..Len(h) |-> [h[i] EXCEPT !.description = "image"]]

\* C19: chunks sent on the audio channel leave in CopiedSoundString what
\* the same (num, message) chunks sent on the image channel leave in
\* CopiedImageString, and lead to the same partial and final contents.
C19_BranchesAgree ==
  (/\ \A i \in 1..Len(ingested) : ingested[i].description = "audio"
   /\ AllFragments(ingested))
  => /\ CopiedSoundString = ImageStringAt(AsImage(ingested), Len(ingested))
     /\ ContentOf(sinkCalls, {"HandleSoundDataPart"}) = ""
     /\ ContentOf(sinkCalls, {"HandleSoundData"}) = ""

(***************************************************************************)
(* The tutorial shell, src/cyber/scripts.js                                *)
(***************************************************************************)

\* String.prototype.split with a one-character separator.
RECURSIVE SplitFrom(_, _, _, _)
SplitFrom(s, sep, i, start) ==
  IF i > Len(s) THEN << SubSeq(s, start, Len(s)) >>
  ELSE IF SubSeq(s, i, i) = sep
    THEN << SubSeq(s, start, i - 1) >> \o SplitFrom(s, sep, i + 1, i + 1)
    ELSE SplitFrom(s, sep, i + 1, start)
Split(s, sep) == SplitFrom(s, sep, 1, 1)

\* String.prototype.trim, for the blanks the commands contain.
RECURSIVE Trim(_)
Trim(s) ==
  IF Len(s) = 0 THEN s
  ELSE IF SubSeq(s, 1, 1) = " " THEN Trim(SubSeq(s, 2, Len(s)))
  ELSE IF SubSeq(s, Len(s), Len(s)) = " " THEN Trim(SubSeq(s, 1, Len(s) - 1))
  ELSE s

\* Array.prototype.join.
RECURSIVE Join(_, _)
Join(parts, sep) ==
  IF parts = << >> THEN ""
  ELSE IF Len(parts) = 1 THEN parts[1]
  ELSE parts[1] \o sep \o Join(Tail(parts), sep)

\* scripts.js:31-33.
getPathParts(path) == SelectSeq(Split(path, "/"), LAMBDA part : Len(part) > 0)

\* The loop of resolvePath, scripts.js:39-45.
RECURSIVE ResolveParts(_, _)
ResolveParts(parts, resolvedPath) ==
  IF parts = << >> THEN resolvedPath
  ELSE ResolveParts(Tail(parts),
         IF Head(parts) = ".."
           THEN (IF resolvedPath = << >> THEN << >>
                 ELSE SubSeq(resolvedPath, 1, Len(resolvedPath) - 1))
         ELSE IF Head(parts) # "." THEN Append(resolvedPath, Head(parts))
         ELSE resolvedPath)

\* scripts.js:35-47.
resolvePath(path) ==
  IF path = "/" THEN "/"
  ELSE "/" \o Join(ResolveParts(getPathParts(path),
                                IF currentDir = "/" THEN << >>
                                ELSE getPathParts(currentDir)),
                   "/")

\* dir[part]: an own property of an object, the length of a string.  (The
\* commands of the model name no inherited property and no index.)
GetProperty(v, part) ==
  IF v.type = "object"
    THEN (IF part \in DOMAIN v.vals THEN v.vals[part] ELSE JSUndefined)
  ELSE IF v.type = "string" /\ part = "length" THEN JSNumber(Len(v.text))
  ELSE JSUndefined

\* The value counts as true in a condition.
Truthy(v) ==
  \/ v.type = "object"
  \/ v.type = "string" /\ v.text # ""
  \/ v.type = "number" /\ v.num # 0

\* The loop of getDirContent, scripts.js:52-58.
RECURSIVE WalkParts(_, _)
WalkParts(dir, parts) ==
  IF parts = << >> THEN dir
  ELSE IF Truthy(GetProperty(dir, Head(parts)))
    THEN WalkParts(GetProperty(dir, Head(parts)), Tail(parts))
    ELSE JSNull

\* scripts.js:49-60, in the file system fs.
getDirContentIn(fs, path) == WalkParts(fs["/"], getPathParts(path))
getDirContent(path) == getDirContentIn(fileSystem, path)

\* Object.keys: the keys of an object in insertion order, the indices of a
\* string, nothing for a number.
ObjectKeys(v) ==
  IF v.type = "object" THEN v.keys
  ELSE IF v.type = "string" THEN [i \in 1..Len(v.text) |-> ToString(i - 1)]
  ELSE << >>

\* obj[name] = value.
SetProperty(obj, name, value) ==
  JSObject(IF name \in DOMAIN obj.vals THEN obj.keys ELSE Append(obj.keys, name),
           [n \in DOMAIN obj.vals \cup {name} |->
              IF n = name THEN value ELSE obj.vals[n]])

\* What one command leaves behind when nothing of it applies.
NoEffect ==
  [output |-> "", dir |-> currentDir, ls |-> executedLs, cat |-> executedCat,
   check |-> FALSE, fs |-> fileSystem, timers |-> timers,
   early |-> FALSE, threw |-> FALSE, enteredIn |-> currentDir]

\* extractFiles(files, index), scripts.js:116-127, up to the setTimeout: the
\* file is added to fileSystem[currentDir] and a callback for index is
\* scheduled; fileSystem[currentDir] undefined makes the assignment throw.
extractFiles(r, files, index) ==
  IF index < Len(files)
    THEN LET fileName == Split(files[index + 1], "/")[Len(Split(files[index + 1], "/"))]
         IN  IF r.dir \in DOMAIN r.fs
               THEN [r EXCEPT !.fs = [r.fs EXCEPT ![r.dir] =
                                        SetProperty(@, fileName,
                                                    JSString("Content of " \o fileName))],
                              !.timers = Append(r.timers,
                                                [index |-> index,
                                                 enteredIn |-> r.enteredIn])]
               ELSE [r EXCEPT !.threw = TRUE]
    ELSE r

\* case 'ls', scripts.js:77-86.
CaseLs ==
  LET content == getDirContent(currentDir) IN
  IF Truthy(content)
    THEN [NoEffect EXCEPT !.output = Join(ObjectKeys(content), " "),
                          !.ls = TRUE, !.check = TRUE]
    ELSE [NoEffect EXCEPT !.output = "ls: cannot access '" \o currentDir
                                       \o "': No such file or directory"]

\* case 'cd', scripts.js:87-96.
CaseCd(args) ==
  IF Len(args) > 0
    THEN IF Truthy(getDirContent(resolvePath(args[1])))
           THEN [NoEffect EXCEPT !.dir = resolvePath(args[1])]
           ELSE [NoEffect EXCEPT !.output = "cd: " \o args[1]
                                             \o ": No such file or directory"]
    ELSE NoEffect

\* case 'cat', scripts.js:97-111.
CaseCat(args) ==
  IF Len(args) > 0
    THEN LET dir == getDirContent(resolvePath(args[1])) IN
         IF dir.type = "string"
           THEN [NoEffect EXCEPT !.output = dir.text,
                                 !.cat = (executedCat \/ args[1] = "file1.txt"),
                                 !.check = (args[1] = "file1.txt")]
           ELSE [NoEffect EXCEPT !.output = "cat: " \o args[1]
                                             \o ": No such file or directory"]
    ELSE NoEffect

\* case 'tar', scripts.js:112-136.
CaseTar(args) ==
  IF Len(args) > 1 /\ args[1] = "-xvf"
    THEN IF args[2] = "my_archive2.tar.bz2"
           THEN extractFiles([NoEffect EXCEPT !.early = TRUE], tarballContent, 0)
           ELSE [NoEffect EXCEPT !.output = "tar: " \o args[2]
                                   \o ": Cannot open: No such file or directory"]
    ELSE [NoEffect EXCEPT !.output = "tar: Missing option"]

\* default, scripts.js:137-139.
CaseDefault(cmd) == [NoEffect EXCEPT !.output = cmd \o ": command not found"]

\* The commands entered in the model.
ShellCommands ==
  { "ls", "cd home", "cd ..", "cd etc", "cd file.txt", "cd missing",
    "cat file1.txt", "cat file.txt", "cat /file1.txt",
    "tar -xvf my_archive2.tar.bz2", "pwd" }

\* command.trim().split(' '), scripts.js:72, of each of them.
CommandWords == [command \in ShellCommands |-> Split(Trim(command), " ")]

\* The switch of handleCommand on the first word of the trimmed command.
CommandEffect(command) ==
  LET words == CommandWords[command]
      cmd == Head(words)
      args == Tail(words)
  IN  IF cmd = "ls" THEN CaseLs
      ELSE IF cmd = "cd" THEN CaseCd(args)
      ELSE IF cmd = "cat" THEN CaseCat(args)
      ELSE IF cmd = "tar" THEN CaseTar(args)
      ELSE CaseDefault(cmd)

\* checkCompletion revealing the message when either flag is set.
checkCompletion_EitherFlag(shown, ls, cat) == IF ls \/ cat THEN TRUE ELSE shown

\* checkCompletion, scripts.js:62-66.
checkCompletion(shown, ls, cat) == IF ls /\ cat THEN TRUE ELSE shown

\* handleCommand, scripts.js:68-147.  The echo of the command is the first
\* line appended to 'output' (after the page's prompt text).
handleCommand(command) ==
  LET r == CommandEffect(command) IN
  /\ cmdCount < MaxCmds
  /\ cmdCount' = cmdCount + 1
  /\ currentDir' = r.dir
  /\ executedLs' = r.ls
  /\ executedCat' = r.cat
  /\ completionShown' = IF r.check
                          THEN checkCompletion(completionShown, r.ls, r.cat)
                          ELSE completionShown
  /\ fileSystem' = r.fs
  /\ timers' = r.timers
  /\ printed' = << command >>
                  \o (IF r.output # "" /\ ~r.early /\ ~r.threw
                        THEN << r.output >> ELSE << >>)
  /\ inputValue' = IF r.early \/ r.threw THEN command ELSE ""
  /\ shellOutcome' = IF r.threw THEN "TypeError" ELSE "return"
  /\ UNCHANGED receiverVars

\* The callback of setTimeout, scripts.js:121-125: the oldest pending
\* callback prints its file and goes on with extractFiles(files, index + 1).
TimerFires ==
  /\ timers # << >>
  /\ LET index == Head(timers).index
         r == extractFiles([NoEffect EXCEPT !.timers = Tail(timers),
                                            !.enteredIn = Head(timers).enteredIn],
                           tarballContent, index + 1)
     IN  /\ printed' = << "./" \o tarballContent[index + 1] >>
         /\ fileSystem' = r.fs
         /\ timers' = r.timers
         /\ shellOutcome' = IF r.threw THEN "TypeError" ELSE "return"
  /\ UNCHANGED <<currentDir, executedLs, executedCat, completionShown,
                 inputValue, cmdCount>>
  /\ UNCHANGED receiverVars

ShellNext ==
  \/ \E command \in ShellCommands : handleCommand(command)
  \/ TimerFires

ShellInit == Init /\ hostGlobals = TRUE

ShellSpec == ShellInit /\ [][ShellNext]_vars

(***************************************************************************)
(* C20                                                                     *)
(***************************************************************************)

\* This step is handleCommand(command).
Handles(command) == cmdCount' = cmdCount + 1 /\ printed'[1] = command

\* currentDir is '/' or names a directory object of the file system.
C20_CurrentDirIsDirectory ==
  currentDir = "/" \/ getDirContent(currentDir).type = "object"

\* A `cd` whose target is not a directory object leaves currentDir as it is
\* and prints 'No such file or directory'.
C20_CdToNonDirectoryFails ==
  \A command \in ShellCommands :
    LET words == CommandWords[command] IN
    (/\ Handles(command)
     /\ Head(words) = "cd"
     /\ Len(words) > 1
     /\ getDirContent(resolvePath(words[2])).type # "object")
    => /\ currentDir' = currentDir
       /\ printed' = << command,
                       "cd: " \o words[2] \o ": No such file or directory" >>

\* C20: after any sequence of commands currentDir is '/' or a path that
\* getDirContent resolves to a directory object, and a `cd` to a file or to
\* a missing entry leaves currentDir unchanged and prints 'No such file or
\* directory'.
C20_CurrentDirStaysDirectory ==
  []C20_CurrentDirIsDirectory /\ [][C20_CdToNonDirectoryFails]_vars

(***************************************************************************)
(* C21                                                                     *)
(***************************************************************************)

\* The step runs extractFiles for entry number i (from 1) of tarballContent,
\* on behalf of a tar command that was entered in directory d: either the
\* tar command itself (i = 1) or a timer callback going on to the next entry.
Extracts(d, i) ==
  \/ /\ Handles("tar -xvf my_archive2.tar.bz2")
     /\ d = currentDir
     /\ i = 1
  \/ /\ cmdCount' = cmdCount
     /\ timers # << >>
     /\ timers' # timers
     /\ d = Head(timers).enteredIn
     /\ i = Head(timers).index + 2
     /\ i <= Len(tarballContent)

\* The names under which directory d is recorded to hold files.
NamesIn(fs, d) == IF d \in DOMAIN fs THEN DOMAIN fs[d].vals ELSE {}

\* An extracted file goes to the directory its tar command was entered in,
\* and to no other.
C21_AddedWhereEntered ==
  \A d \in DOMAIN fileSystem, i \in 1..Len(tarballContent) :
    Extracts(d, i)
    => /\ tarballContent[i] \in NamesIn(fileSystem', d)
       /\ \A other \in DOMAIN fileSystem \ {d} :
            fileSystem'[other] = fileSystem[other]

\* The line of names an `ls` step prints.
Listed == IF Len(printed') > 1 THEN printed'[2] ELSE ""

\* name is one of the space-separated words of line.
HasWord(line, name) ==
  \E a \in 1..Len(line) :
    LET b == a + Len(name) - 1 IN
    /\ b <= Len(line)
    /\ SubSeq(line, a, b) = name
    /\ (a = 1 \/ SubSeq(line, a - 1, a - 1) = " ")
    /\ (b = Len(line) \/ SubSeq(line, b + 1, b + 1) = " ")

\* An `ls` lists every tarball entry that was added to the current directory.
C21_LsListsExtracted ==
  Handles("ls")
  => \A i \in 1..Len(tarballContent) :
       tarballContent[i] \in NamesIn(fileSystem, currentDir)
       => HasWord(Listed, tarballContent[i])

\* C21: every file extracted by one tar command is added to the directory
\* that was current when the command was entered, also when `cd` commands
\* are handled between the timer callbacks, and a later `ls` in that
\* directory lists every extracted name.
C21_ExtractsIntoEntryDirectory ==
  [][C21_AddedWhereEntered /\ C21_LsListsExtracted]_vars

(***************************************************************************)
(* C22                                                                     *)
(***************************************************************************)

\* The shell when every scheduled timer eventually fires.
ShellFairSpec == ShellSpec /\ WF_vars(TimerFires)

\* No step of the shell ends in an exception.
C22_NoError == shellOutcome # "TypeError"

\* One timer callback prints one entry, the one after the entry its
\* predecessor printed, and schedules the callback of the next entry unless
\* it printed the last.
C22_CallbackStep ==
  (cmdCount' = cmdCount /\ timers # << >> /\ timers' # timers)
  => LET index == Head(timers).index IN
     /\ printed' = << "./" \o tarballContent[index + 1] >>
     /\ IF index + 1 < Len(tarballContent)
          THEN /\ Len(timers') = Len(timers)
               /\ timers'[Len(timers')].index = index + 1
          ELSE timers' = Tail(timers)

\* A tar command of the archive has just been handled.
C22_TarEntered == printed = << "tar -xvf my_archive2.tar.bz2" >>

\* The last entry has been printed and no callback is pending.
C22_AllPrinted ==
  /\ printed = << "./" \o tarballContent[Len(tarballContent)] >>
  /\ timers = << >>

\* C22: after the tar command is entered in any directory reachable through
\* `cd`, and when every scheduled timer eventually fires, the extraction
\* prints all 30 entries of tarballContent in list order, one per timer
\* callback, then schedules no further timer, and never raises an error.
C22_ExtractionCompletes ==
  /\ []C22_NoError
  /\ [][C22_CallbackStep]_vars
  /\ (C22_TarEntered ~> C22_AllPrinted)

(***************************************************************************)
(* C23                                                                     *)
(***************************************************************************)

\* The message is revealed only with both flags set.
C23_RevealedOnlyWithBoth == completionShown => (executedLs /\ executedCat)

\* The `ls` step took its successful branch: it did not print the error.
LsSucceeds ==
  /\ Handles("ls")
  /\ printed' # << "ls", "ls: cannot access '" \o currentDir
                           \o "': No such file or directory" >>

\* The step is `cat file1.txt` and prints the text of a file.
CatPrintsFile1 ==
  /\ Handles("cat file1.txt")
  /\ getDirContent(resolvePath("file1.txt")).type = "string"
  /\ printed' = << "cat file1.txt", getDirContent(resolvePath("file1.txt")).text >>

\* The flags never go back to false; executedLs is set by a successful `ls`
\* only, executedCat by a `cat file1.txt` that prints a file only, and the
\* message is revealed by one of these two steps only.
C23_FlagsStep ==
  /\ executedLs => executedLs'
  /\ executedCat => executedCat'
  /\ (executedLs' /\ ~executedLs) => LsSucceeds
  /\ (executedCat' /\ ~executedCat) => CatPrintsFile1
  /\ (completionShown' /\ ~completionShown) => (LsSucceeds \/ CatPrintsFile1)

\* C23: the completion message is revealed only after an `ls` has succeeded
\* and a `cat` with argument exactly 'file1.txt' has printed a file;
\* executedLs and executedCat never go back to false, and no other command
\* reveals the message.
C23_CompletionOnlyAfterLsAndCat ==
  []C23_RevealedOnlyWithBoth /\ [][C23_FlagsStep]_vars

\* The message has been revealed.
C23_Witness == completionShown /\ executedLs /\ executedCat

====
